---- MODULE Spec2Model ----
(***************************************************************************)
(* DCue: the release-to-cue-sheet pipeline of src/main.cpp.                *)
(*                                                                         *)
(* generate() fetches a Discogs release document, maps it onto an Album    *)
(* (discs of tracks) and hands the Album to the cue sheet builder.         *)
(* concatenate_artists() joins the artist credits of an album or a track.  *)
(*                                                                         *)
(* A std::string is a sequence of one-character strings; a JSON object is  *)
(* a function whose DOMAIN is the set of keys present in it; a JSON array  *)
(* is a sequence.                                                          *)
(***************************************************************************)
EXTENDS Integers, Sequences, FiniteSets, TLC

VARIABLES
  pc,          \* position of generate(): start, parse, loop, discard, render,
               \* returned, exit1 (std::exit(1)), terminate (uncaught exception)
  toplevel,    \* the release document Discogs holds for the requested id
  a,           \* Album a
  disc,        \* unsigned disc
  track_num,   \* unsigned track_num
  it,          \* number of tracklist entries the range-for has consumed
  log,         \* the collaborators generate() has invoked so far, in order
  artists,     \* argument of a stand-alone concatenate_artists call
  ret          \* outcome of that call

vars == <<pc, toplevel, a, disc, track_num, it, log, artists, ret>>

(***************************************************************************)
(* Bounds of the model.                                                    *)
(***************************************************************************)
MaxTracks == 4        \* longest tracklist of the disc-structure documents
MaxFieldTracks == 1   \* longest tracklist of the optional-field documents
MaxArtists == 3       \* longest artist-credit sequence

(***************************************************************************)
(* Strings.                                                                *)
(***************************************************************************)
EmptyString == <<>>

Digits == <<"0", "1", "2", "3", "4", "5", "6", "7", "8", "9">>

IsDigit(c) == \E i \in 1..10 : Digits[i] = c

DigitVal(c) == (CHOOSE i \in 1..10 : Digits[i] = c) - 1

IsSpace(c) == c = " "

\* size_t arithmetic wraps: 0 - 1 is the largest size_t, which is npos.
npos == 2147483647

SizeSub(n, m) == IF n >= m THEN n - m ELSE npos - (m - n) + 1

\* std::string::find_first_of: index (0-based) of the first character of s
\* that is in chars, npos when there is none.
find_first_of(s, chars) ==
  IF \E i \in 1..Len(s) : s[i] \in chars
  THEN (CHOOSE i \in 1..Len(s) :
          s[i] \in chars /\ \A j \in 1..(i - 1) : s[j] \notin chars) - 1
  ELSE npos

\* std::string::substr(pos, n) for pos <= size.
substr(s, pos, n) ==
  LET last == IF pos + n > Len(s) THEN Len(s) ELSE pos + n
  IN  SubSeq(s, pos + 1, last)

\* std::to_string on a non-negative int.
RECURSIVE to_string(_)
to_string(n) ==
  IF n < 10 THEN <<Digits[n + 1]>>
  ELSE to_string(n \div 10) \o <<Digits[(n % 10) + 1]>>

\* string_to_numeric<T> (string_utility.h): a decimal numeral gives its
\* value, anything else gives 0.
RECURSIVE NumeralValue(_)
NumeralValue(s) ==
  IF s = <<>> THEN 0
  ELSE 10 * NumeralValue(SubSeq(s, 1, Len(s) - 1)) + DigitVal(s[Len(s)])

string_to_numeric(s) ==
  IF s # <<>> /\ \A i \in 1..Len(s) : IsDigit(s[i])
  THEN NumeralValue(s)
  ELSE 0

\* explode (string_utility.h): split on every occurrence of the one-character
\* delimiter, empty segments kept.
RECURSIVE explode(_, _)
explode(s, delim) ==
  LET p == find_first_of(s, {delim})
  IN  IF p = npos THEN <<s>>
      ELSE <<substr(s, 0, p)>> \o explode(SubSeq(s, p + 2, Len(s)), delim)

\* trim (string_utility.h): leading and trailing whitespace removed.
RECURSIVE trim(_)
trim(s) ==
  IF s = <<>> THEN s
  ELSE IF IsSpace(s[1]) THEN trim(Tail(s))
  ELSE IF IsSpace(s[Len(s)]) THEN trim(SubSeq(s, 1, Len(s) - 1))
  ELSE s

\* NamingFacets::artist_facets (naming.h): a trailing " (n)" disambiguation
\* suffix is removed, a string without one is unchanged.
HasDisambiguation(s, i) ==
  /\ i >= 1 /\ i + 3 <= Len(s)
  /\ s[i] = " " /\ s[i + 1] = "(" /\ s[Len(s)] = ")"
  /\ \A j \in (i + 2)..(Len(s) - 1) : IsDigit(s[j])

artist_facets(s) ==
  IF \E i \in 1..Len(s) : HasDisambiguation(s, i)
  THEN SubSeq(s, 1, (CHOOSE i \in 1..Len(s) : HasDisambiguation(s, i)) - 1)
  ELSE s

(***************************************************************************)
(* JSON access.                                                            *)
(***************************************************************************)
EmptyObject == [k \in {} |-> 0]

Has(json, key) == key \in DOMAIN json

get_if_exists(json, key, defval) == IF Has(json, key) THEN json[key] ELSE defval

(***************************************************************************)
(* concatenate_artists.                                                    *)
(***************************************************************************)
ResolveName(artist_info) ==
  LET anv == get_if_exists(artist_info, "anv", EmptyString)
  IN  IF anv # EmptyString THEN anv ELSE artist_info["name"]

\* AppendJoin with the comma treated like any other join token.
AppendJoin_spaced(artist, join) ==
  IF join # EmptyString THEN artist \o <<" ">> \o join ELSE artist

AppendJoin(artist, join) ==
  IF join # EmptyString
  THEN (IF join # <<",">> THEN artist \o <<" ">> ELSE artist) \o join
  ELSE artist

\* One iteration of the loop over the credits.
ArtistStep(artist, artist_info) ==
  AppendJoin(artist_facets(artist \o ResolveName(artist_info)),
             get_if_exists(artist_info, "join", EmptyString)) \o <<" ">>

RECURSIVE ArtistLoop(_, _)
ArtistLoop(artist, infos) ==
  IF infos = <<>> THEN artist
  ELSE ArtistLoop(ArtistStep(artist, Head(infos)), Tail(infos))

\* std::string::erase(pos, n): throws std::out_of_range when pos > size().
erase(s, pos, n) ==
  IF pos > Len(s)
  THEN [threw |-> TRUE, val |-> s]
  ELSE [threw |-> FALSE,
        val |-> SubSeq(s, 1, pos) \o
                SubSeq(s, (IF pos + n > Len(s) THEN Len(s) ELSE pos + n) + 1, Len(s))]

concatenate_artists(infos) ==
  LET artist == ArtistLoop(EmptyString, infos)
  IN  erase(artist, SizeSub(Len(artist), 1), 1)

(***************************************************************************)
(* Album, Disc, Track (support_types.h).                                   *)
(***************************************************************************)
NewDisc == [tracks |-> <<>>]

NewTrack ==
  [position |-> 0, artist |-> EmptyString, title |-> EmptyString,
   length |-> [tm_min |-> 0, tm_sec |-> 0]]

NewAlbum ==
  [title |-> EmptyString, year |-> EmptyString, genre |-> EmptyString,
   album_artist |-> EmptyString, discs |-> <<>>]

(***************************************************************************)
(* generate: the tracklist loop.                                           *)
(***************************************************************************)
\* toplevel["tracklist"]: an absent key reads as null, which iterates as empty.
Tracklist(doc) == get_if_exists(doc, "tracklist", <<>>)

Separators == {".", "-"}

\* IsBoundary with >= in place of >.
IsBoundary_ge(position, d) ==
  /\ find_first_of(position, Separators) # npos
  /\ string_to_numeric(substr(position, 0, find_first_of(position, Separators))) >= d

IsBoundary(position, d) ==
  /\ find_first_of(position, Separators) # npos
  /\ string_to_numeric(substr(position, 0, find_first_of(position, Separators))) > d

\* NewDiscCursor moving the cursor to the parsed disc number.
NewDiscCursor_jump(position, d) ==
  IF IsBoundary(position, d)
  THEN string_to_numeric(substr(position, 0, find_first_of(position, Separators)))
  ELSE d

NewDiscCursor(position, d) == IF IsBoundary(position, d) THEN d + 1 ELSE d

\* NewTrackNum without the reset at a disc boundary.
NewTrackNum_noreset(position, d, n) == n

NewTrackNum(position, d, n) == IF IsBoundary(position, d) THEN 1 ELSE n

NewDiscs(position, d, discs) ==
  IF IsBoundary(position, d) THEN Append(discs, NewDisc) ELSE discs

\* t.length from track_info["duration"].
TrackLength(track_info) ==
  IF Has(track_info, "duration")
  THEN LET time_components == explode(track_info["duration"], ":")
       IN  IF Len(time_components) = 2
           THEN [tm_min |-> string_to_numeric(trim(time_components[1])),
                 tm_sec |-> string_to_numeric(trim(time_components[2]))]
           ELSE NewTrack.length
  ELSE NewTrack.length

\* t.artist: the outcome of concatenate_artists, or the album artist.
TrackArtist(track_info, album_artist) ==
  IF Has(track_info, "artists")
  THEN concatenate_artists(track_info["artists"])
  ELSE [threw |-> FALSE, val |-> album_artist]

BuildTrack(track_info, n, album_artist) ==
  [position |-> n,
   artist |-> TrackArtist(track_info, album_artist).val,
   title |-> get_if_exists(track_info, "title", EmptyString),
   length |-> TrackLength(track_info)]

\* a.discs[disc].tracks.push_back(t); an index past the end is not reachable
\* through NewDiscCursor and NewDiscs, and leaves the discs alone here.
PushTrack(discs, d, t) ==
  IF d + 1 \in 1..Len(discs)
  THEN [discs EXCEPT ![d + 1].tracks = Append(@, t)]
  ELSE discs

\* DiscardPlaceholder without the size() > 1 guard.
DiscardPlaceholder_always(discs) ==
  IF Len(discs) >= 1 THEN Tail(discs) ELSE discs

DiscardPlaceholder(discs) ==
  IF Len(discs) > 1 THEN Tail(discs) ELSE discs

\* CueBuilder (cue.h): std::runtime_error when there is no track data.
CueBuilderThrows(album) ==
  \/ Len(album.discs) = 0
  \/ \A i \in 1..Len(album.discs) : album.discs[i].tracks = <<>>

\* AfterSend with the result of send ignored.
AfterSend_ignored(ok) == "parse"

AfterSend(ok) == IF ok THEN "parse" ELSE "exit1"

(***************************************************************************)
(* generate: the steps.                                                    *)
(***************************************************************************)
\* req.send(id, json, is_master)
Send ==
  /\ pc = "start"
  /\ \E ok \in BOOLEAN :
       /\ log' = Append(log, IF ok THEN "send_ok" ELSE "send_failed")
       /\ pc' = AfterSend(ok)
  /\ UNCHANGED <<toplevel, a, disc, track_num, it, artists, ret>>

\* From the parse of the document to the declaration of the two cursors.
MapHeader ==
  /\ pc = "parse"
  /\ log' = Append(log, "map")
  /\ LET titled == [NewAlbum EXCEPT
                      !.title = get_if_exists(toplevel, "title", EmptyString),
                      !.year = IF Has(toplevel, "year")
                               THEN to_string(toplevel["year"]) ELSE @]
         credit == IF Has(toplevel, "artists")
                   THEN concatenate_artists(toplevel["artists"])
                   ELSE [threw |-> FALSE, val |-> EmptyString]
     IN  IF Has(toplevel, "styles") /\ toplevel["styles"] = <<>>
         THEN \* styles[0] of an empty array is null: type_error on conversion
              /\ a' = titled
              /\ pc' = "terminate"
         ELSE LET styled == [titled EXCEPT
                               !.genre = IF Has(toplevel, "styles")
                                         THEN toplevel["styles"][1] ELSE @]
              IN  IF credit.threw
                  THEN /\ a' = styled
                       /\ pc' = "terminate"
                  ELSE /\ a' = [styled EXCEPT !.album_artist = credit.val,
                                              !.discs = <<NewDisc>>]
                       /\ pc' = "loop"
  /\ disc' = 0
  /\ track_num' = 1
  /\ it' = 0
  /\ UNCHANGED <<toplevel, artists, ret>>

\* One iteration of the loop over toplevel["tracklist"].
LoopEntry ==
  /\ pc = "loop"
  /\ it < Len(Tracklist(toplevel))
  /\ it' = it + 1
  /\ LET track_info == Tracklist(toplevel)[it + 1]
         position == track_info["position"]
     IN  IF position = EmptyString
         THEN UNCHANGED <<pc, a, disc, track_num>>
         ELSE /\ disc' = NewDiscCursor(position, disc)
              /\ IF TrackArtist(track_info, a.album_artist).threw
                 THEN /\ track_num' = NewTrackNum(position, disc, track_num) + 1
                      /\ a' = [a EXCEPT !.discs = NewDiscs(position, disc, a.discs)]
                      /\ pc' = "terminate"
                 ELSE /\ track_num' = NewTrackNum(position, disc, track_num) + 1
                      /\ a' = [a EXCEPT !.discs =
                                 PushTrack(NewDiscs(position, disc, a.discs),
                                           NewDiscCursor(position, disc),
                                           BuildTrack(track_info,
                                                      NewTrackNum(position, disc, track_num),
                                                      a.album_artist))]
                      /\ pc' = "loop"
  /\ UNCHANGED <<toplevel, log, artists, ret>>

\* The loop is over.
LoopEnd ==
  /\ pc = "loop"
  /\ it = Len(Tracklist(toplevel))
  /\ pc' = "discard"
  /\ UNCHANGED <<toplevel, a, disc, track_num, it, log, artists, ret>>

\* if (a.discs.size() > 1) a.discs.erase(a.discs.begin());
Discard ==
  /\ pc = "discard"
  /\ a' = [a EXCEPT !.discs = DiscardPlaceholder(a.discs)]
  /\ pc' = "render"
  /\ UNCHANGED <<toplevel, disc, track_num, it, log, artists, ret>>

\* CueBuilder csb(cs), and the catch of std::runtime_error.
Render ==
  /\ pc = "render"
  /\ IF CueBuilderThrows(a)
     THEN /\ log' = log \o <<"CueBuilder", "runtime_error">>
          /\ pc' = "exit1"
     ELSE /\ log' = Append(log, "CueBuilder")
          /\ pc' = "returned"
  /\ UNCHANGED <<toplevel, a, disc, track_num, it, artists, ret>>

\* A stand-alone call of concatenate_artists.
CallConcatenate ==
  /\ pc = "call"
  /\ ret' = concatenate_artists(artists)
  /\ pc' = "ret"
  /\ UNCHANGED <<toplevel, a, disc, track_num, it, log, artists>>

(***************************************************************************)
(* The documents and credit sequences the model runs on.                   *)
(***************************************************************************)
SeqsUpTo(S, n) == UNION {[1..k -> S] : k \in 0..n}

Opt(key, Vals) == {EmptyObject} \cup {key :> v : v \in Vals}

\* Artist credits: canonical names with and without a disambiguation suffix,
\* an optional name variation, an optional join token.
Names == {<<"A">>, <<"B", " ", "(", "2", ")">>}

Anvs == {<<"V">>}

Joins == {<<",">>, <<"&">>, <<"f", "t", ".">>}

Credits ==
  {n @@ v @@ j : n \in {[name |-> x] : x \in Names},
                 v \in Opt("anv", Anvs \cup {EmptyString}),
                 j \in Opt("join", Joins)}

CreditSeqs == SeqsUpTo(Credits, MaxArtists)

\* Position strings: empty (an index entry), no separator, a separator after
\* a prefix that is not a numeral, and separators after disc numbers 1 to 3.
Positions ==
  {EmptyString, <<"1">>, <<"A", ".", "1">>, <<"1", "-", "1">>,
   <<"2", "-", "1">>, <<"2", "-", "2">>, <<"3", ".", "1">>}

TitleOf(i) == <<"T", Digits[i + 1]>>

StructHeader ==
  [title |-> <<"L">>, artists |-> <<[name |-> <<"A">>]>>]

\* Documents that vary the disc structure: every sequence of positions, the
\* i-th entry titled after its index.
StructDocs ==
  {StructHeader @@
     [tracklist |-> [i \in 1..Len(ps) |-> [position |-> ps[i], title |-> TitleOf(i)]]] :
   ps \in SeqsUpTo(Positions, MaxTracks)}

Durations ==
  {<<"3", ":", "4", "5">>, <<"b", "o", "g", "u", "s">>,
   <<" ", "3", ":", "0", "7", " ">>, <<"1", ":", "2", ":", "3">>}

SomeCredits ==
  {<<>>,
   <<[name |-> <<"B", " ", "(", "2", ")">>, join |-> <<"&">>], [name |-> <<"A">>]>>}

FieldEntries ==
  {[position |-> EmptyString]} \cup
  {[position |-> <<"1">>] @@ ar @@ t @@ d :
     ar \in Opt("artists", SomeCredits),
     t \in Opt("title", {<<"T">>}),
     d \in Opt("duration", Durations)}

\* Documents that vary which optional fields are present.
FieldDocs ==
  {t @@ y @@ s @@ ar @@ tl :
     t \in Opt("title", {<<"L">>}),
     y \in Opt("year", {1999}),
     s \in Opt("styles", {<<>>, <<<<"R">>, <<"P">>>>}),
     ar \in Opt("artists", SomeCredits),
     tl \in Opt("tracklist", SeqsUpTo(FieldEntries, MaxFieldTracks))}

(***************************************************************************)
(* Specifications.                                                         *)
(***************************************************************************)
\* generate() on every document.
Init ==
  /\ pc = "start"
  /\ toplevel \in StructDocs \cup FieldDocs
  /\ a = NewAlbum
  /\ disc = 0
  /\ track_num = 1
  /\ it = 0
  /\ log = <<>>
  /\ artists = <<>>
  /\ ret = [threw |-> FALSE, val |-> EmptyString]

Next == Send \/ MapHeader \/ LoopEntry \/ LoopEnd \/ Discard \/ Render

Spec == Init /\ [][Next]_vars

\* concatenate_artists() on every credit sequence.
InitArtists ==
  /\ pc = "call"
  /\ toplevel = EmptyObject
  /\ a = NewAlbum
  /\ disc = 0
  /\ track_num = 1
  /\ it = 0
  /\ log = <<>>
  /\ artists \in CreditSeqs
  /\ ret = [threw |-> FALSE, val |-> EmptyString]

NextArtists == CallConcatenate

SpecArtists == InitArtists /\ [][NextArtists]_vars

(***************************************************************************)
(* Vocabulary of the properties.                                           *)
(***************************************************************************)
\* The Album has been handed to the renderer: the discard step is done.
Handed == pc \in {"render", "returned"} \/ (pc = "exit1" /\ Len(log) > 1)

EntryPositions(doc) ==
  [i \in 1..Len(Tracklist(doc)) |-> Tracklist(doc)[i]["position"]]

TrackPositions(d) == [k \in 1..Len(d.tracks) |-> d.tracks[k].position]

RECURSIVE TotalTracks(_)
TotalTracks(discs) ==
  IF discs = <<>> THEN 0 ELSE Len(Head(discs).tracks) + TotalTracks(Tail(discs))

HasPosition(track_info) == track_info["position"] # EmptyString

PositionedEntries(doc) == SelectSeq(Tracklist(doc), HasPosition)

\* The numeral before the first '.' or '-' of a position is greater than 0.
PrefixAboveZero(position) ==
  \E i \in 1..Len(position) :
    /\ position[i] \in Separators
    /\ \A j \in 1..(i - 1) : position[j] \notin Separators
    /\ i > 1
    /\ \A j \in 1..(i - 1) : IsDigit(position[j])
    /\ \E j \in 1..(i - 1) : position[j] # "0"

NoBoundaryDoc(doc) ==
  \A i \in 1..Len(Tracklist(doc)) : ~PrefixAboveZero(Tracklist(doc)[i]["position"])

\* An artist credit as the text it contributes to the concatenation.
Piece(artist_info) ==
  LET join == get_if_exists(artist_info, "join", EmptyString)
  IN  artist_facets(ResolveName(artist_info)) \o
        (IF join = EmptyString THEN <<>>
         ELSE IF join = <<",">> THEN <<",">>
         ELSE <<" ">> \o join)

RECURSIVE SpaceSeparated(_)
SpaceSeparated(infos) ==
  IF Len(infos) = 1 THEN Piece(infos[1])
  ELSE Piece(infos[1]) \o <<" ">> \o SpaceSeparated(Tail(infos))

(***************************************************************************)
(* C1. The positions "1", "1", "2-1", "2-2" give an Album of exactly two   *)
(* Discs with two Tracks each, numbered 1, 2 on both Discs.                *)
(***************************************************************************)
C1_TwoDiscsOfTwoTracks ==
  (Handed /\ EntryPositions(toplevel) =
               <<(<<"1">>), (<<"1">>), (<<"2", "-", "1">>), (<<"2", "-", "2">>)>>)
  => /\ Len(a.discs) = 2
     /\ \A i \in 1..Len(a.discs) : TrackPositions(a.discs[i]) = <<1, 2>>

(***************************************************************************)
(* C2. concatenate_artists on an empty credit sequence returns the empty   *)
(* string and raises no error.                                             *)
(***************************************************************************)
C2_EmptyCreditsGiveEmptyString ==
  (pc = "ret" /\ artists = <<>>) => (~ret.threw /\ ret.val = EmptyString)

(***************************************************************************)
(* C3. concatenate_artists on a non-empty credit sequence returns the      *)
(* entries' pieces separated by exactly one space, a piece being the name  *)
(* followed by "," directly, or by a space and any other join token, or by *)
(* nothing; the result does not end with a space.                          *)
(***************************************************************************)
C3_PiecesSeparatedByOneSpace ==
  (pc = "ret" /\ artists # <<>>)
  => /\ ~ret.threw
     /\ ret.val = SpaceSeparated(artists)
     /\ ret.val # <<>>
     /\ ret.val[Len(ret.val)] # " "

C3_Witness ==
  /\ pc = "ret"
  /\ Len(artists) = 3
  /\ get_if_exists(artists[1], "join", EmptyString) = <<",">>
  /\ get_if_exists(artists[2], "join", EmptyString) = <<"&">>
  /\ artists[2]["name"] = <<"B", " ", "(", "2", ")">>
  /\ ~Has(artists[2], "anv")
  /\ ~Has(artists[3], "join")
  /\ ~ret.threw

(***************************************************************************)
(* C4. In the Album handed to the renderer the Tracks of every Disc carry  *)
(* the positions 1, 2, ..., n in order.                                    *)
(***************************************************************************)
C4_TrackPositionsSequential ==
  Handed =>
    \A i \in 1..Len(a.discs) :
      \A k \in 1..Len(a.discs[i].tracks) : a.discs[i].tracks[k].position = k

C4_Witness ==
  /\ pc = "render"
  /\ Len(a.discs) = 2
  /\ Len(a.discs[1].tracks) = 2
  /\ \E i \in 1..Len(Tracklist(toplevel)) : ~HasPosition(Tracklist(toplevel)[i])
  /\ \E i \in 1..Len(Tracklist(toplevel)) : Tracklist(toplevel)[i]["position"] = <<"1">>

(***************************************************************************)
(* C5. From the creation of the placeholder Disc through the discard step  *)
(* and in the Album handed to the renderer, the Album has at least one     *)
(* Disc.                                                                   *)
(***************************************************************************)
C5_AtLeastOneDisc ==
  (pc \in {"loop", "discard"} \/ Handed) => Len(a.discs) >= 1

C5_Witness ==
  /\ pc = "render"
  /\ disc = 1
  /\ Len(a.discs) = 1

(***************************************************************************)
(* C6. A tracklist without a disc boundary gives exactly one Disc, the     *)
(* placeholder, holding one Track per entry with a non-empty position, in  *)
(* input order.                                                            *)
(***************************************************************************)
C6_SingleDiscIsPlaceholder ==
  (Handed /\ NoBoundaryDoc(toplevel))
  => /\ Len(a.discs) = 1
     /\ disc = 0
     /\ Len(a.discs[1].tracks) = Len(PositionedEntries(toplevel))
     /\ \A k \in 1..Len(a.discs[1].tracks) :
          /\ a.discs[1].tracks[k].position = k
          /\ a.discs[1].tracks[k].title =
               get_if_exists(PositionedEntries(toplevel)[k], "title", EmptyString)

C6_Witness ==
  /\ pc = "render"
  /\ NoBoundaryDoc(toplevel)
  /\ Len(a.discs[1].tracks) = 3
  /\ EntryPositions(toplevel) =
       <<(<<"1">>), EmptyString, (<<"A", ".", "1">>), (<<"1">>)>>

(***************************************************************************)
(* C7. The fetch is invoked exactly once; a failed fetch ends in exit      *)
(* status 1 with neither the mapping nor the renderer reached; mapping and *)
(* rendering follow a successful fetch in that order; a runtime error of   *)
(* the renderer ends in exit status 1.                                     *)
(***************************************************************************)
C7_FetchMapRenderOrder ==
  /\ log \in {<<>>, <<"send_failed">>, <<"send_ok">>, <<"send_ok", "map">>,
              <<"send_ok", "map", "CueBuilder">>,
              <<"send_ok", "map", "CueBuilder", "runtime_error">>}
  /\ (pc # "start") <=> (Len(log) >= 1)
  /\ (log = <<"send_failed">>) => (pc = "exit1")
  /\ (Len(log) = 4) => (pc = "exit1")
  /\ (pc = "exit1") => (log = <<"send_failed">> \/ Len(log) = 4)
  /\ (pc \in {"loop", "discard", "render", "terminate"}) => (log = <<"send_ok", "map">>)
  /\ (pc = "returned") => (log = <<"send_ok", "map", "CueBuilder">>)

C7_Witness ==
  /\ pc = "exit1"
  /\ log = <<"send_ok", "map", "CueBuilder", "runtime_error">>

(***************************************************************************)
(* C8. A document with optional fields missing (title, year, styles,       *)
(* artists, tracklist, per-track artists, title, duration) or with an      *)
(* empty styles sequence is mapped without a fatal termination, each       *)
(* affected field left at its default.                                     *)
(***************************************************************************)
\* The documents of the claim: where artists are present there is a credit.
C8_Document(doc) ==
  /\ Has(doc, "artists") => doc["artists"] # <<>>
  /\ \A i \in 1..Len(Tracklist(doc)) :
       Has(Tracklist(doc)[i], "artists") => Tracklist(doc)[i]["artists"] # <<>>

C8_HeaderDefaults ==
  /\ ~Has(toplevel, "title") => a.title = EmptyString
  /\ ~Has(toplevel, "year") => a.year = EmptyString
  /\ (~Has(toplevel, "styles") \/ toplevel["styles"] = <<>>) => a.genre = EmptyString
  /\ ~Has(toplevel, "artists") => a.album_artist = EmptyString

C8_TrackDefaults ==
  (pc = "loop" /\ it >= 1 /\ HasPosition(Tracklist(toplevel)[it]))
  => LET track_info == Tracklist(toplevel)[it]
         t == a.discs[Len(a.discs)].tracks[Len(a.discs[Len(a.discs)].tracks)]
     IN  /\ ~Has(track_info, "title") => t.title = EmptyString
         /\ ~Has(track_info, "artists") => t.artist = a.album_artist
         /\ ~Has(track_info, "duration") => t.length = [tm_min |-> 0, tm_sec |-> 0]

C8_MissingFieldsNeverFatal ==
  C8_Document(toplevel)
  => /\ pc # "terminate"
     /\ (pc \in {"loop", "discard"} \/ Handed) => C8_HeaderDefaults
     /\ C8_TrackDefaults

(***************************************************************************)
(* C9. The Disc the final step discards holds no Tracks, so the Album      *)
(* handed to the renderer holds as many Tracks as the tracklist has        *)
(* entries with a non-empty position.                                      *)
(***************************************************************************)
C9_NoTrackLost ==
  /\ (pc = "discard" /\ Len(a.discs) > 1) => a.discs[1].tracks = <<>>
  /\ Handed => TotalTracks(a.discs) = Len(PositionedEntries(toplevel))

(***************************************************************************)
(* C10. In the tracklist loop the disc cursor is the index of the last     *)
(* Disc; it never decreases; an entry with an empty position leaves the    *)
(* cursors and the discs unchanged; one entry advances the disc cursor by  *)
(* at most one.                                                            *)
(***************************************************************************)
C10_DiscCursorIsLastDisc ==
  [][/\ (pc' \in {"loop", "discard"}) => (disc' = Len(a'.discs) - 1)
     /\ (pc = "loop") =>
          /\ disc' >= disc
          /\ disc' <= disc + 1
          /\ (it' = it + 1 /\ ~HasPosition(Tracklist(toplevel)[it + 1]))
               => UNCHANGED <<disc, track_num, a>>]_vars

C10_Witness ==
  /\ pc = "loop"
  /\ it = 2
  /\ EntryPositions(toplevel)[1] = EmptyString
  /\ EntryPositions(toplevel)[2] = <<"3", ".", "1">>
  /\ disc = 1
  /\ Len(a.discs) = 2

====
